---- MODULE Spec2Model ----
(***************************************************************************)
(* Model of the Arxiv_LLM_Daily pipeline: the incremental search client    *)
(* (src/src/arxiv_client.py), the run driver (src/main.py) and the         *)
(* summarizer's success contract (src/src/paper_summarizer.py); the PDF    *)
(* text fetcher and its key-section extractor (src/src/arxiv_client.py);   *)
(* the embedding gateway, the clustering and the choice of representative  *)
(* papers (src/src/clustering.py); the priority sort of the report, the    *)
(* retry loop of the LLM call (src/src/paper_summarizer.py) and the        *)
(* watermark file (src/src/arxiv_client.py).                               *)
(*                                                                         *)
(* Python strings are sequences of one-character strings.  Python's None   *)
(* for an identifier is the empty sequence: the code only ever tests such  *)
(* a value for truthiness, where None and '' agree.                        *)
(***************************************************************************)
EXTENDS Integers, Sequences, FiniteSets, TLC

\* ---------------------------------------------------------------- bounds

\* Longest identifier body drawn as an input of _extract_paper_id.
MaxIdLen == 3
\* Longest result stream the external search returns.
MaxStream == 3
\* Largest configured max_total_results (SEARCH_CONFIG is configuration).
MaxCap == 2
\* Number of consecutive runs of main that are followed.
MaxRuns == 2

\* _save_latest_paper_id calls followed on one file.
MaxSaves == 2

\* Largest LLM_CONFIG['retry_count'] (config/settings.py:58 sets 3).
MaxRetryCount == 3

\* ------------------------------------------------------- string helpers

None == << >>

Min(a, b) == IF a <= b THEN a ELSE b

\* s[from..] as a sequence (Python s[from-1:]).
DropFirst(s, n) == SubSeq(s, n + 1, Len(s))

\* Python s.startswith(p)
StartsWith(s, p) == Len(p) <= Len(s) /\ SubSeq(s, 1, Len(p)) = p

\* The 1-based positions at which sub occurs in s.
Occurrences(s, sub) ==
    { i \in 1..(Len(s) - Len(sub) + 1) : SubSeq(s, i, i + Len(sub) - 1) = sub }

\* Python `sub in s`
Contains(s, sub) == Occurrences(s, sub) # {}

MaxOf(S) == CHOOSE x \in S : \A y \in S : y <= x

\* Python s.split(sep)[-1] for a separator that cannot overlap itself: the
\* text after the last occurrence of sep (s itself when sep does not occur).
SplitLast(s, sep) ==
    IF Contains(s, sep)
    THEN DropFirst(s, MaxOf(Occurrences(s, sep)) + Len(sep) - 1)
    ELSE s

\* Python s.replace(old, ''): every occurrence removed, left to right.
RECURSIVE RemoveAll(_, _)
RemoveAll(s, old) ==
    IF Len(s) < Len(old) THEN s
    ELSE IF StartsWith(s, old) THEN RemoveAll(DropFirst(s, Len(old)), old)
    ELSE << Head(s) >> \o RemoveAll(Tail(s), old)

\* Python s.rsplit(ch, 1)[0]: the text before the last occurrence of ch.
RSplitHead(s, ch) ==
    IF Contains(s, << ch >>)
    THEN SubSeq(s, 1, MaxOf(Occurrences(s, << ch >>)) - 1)
    ELSE s

ArxivAbsMarker ==
    << "a", "r", "x", "i", "v", ".", "o", "r", "g", "/", "a", "b", "s", "/" >>

ArxivColon == << "a", "r", "x", "i", "v", ":" >>

\* ArxivClient._extract_paper_id, first half: the prefix is removed.
StripPrefix(entry_id) ==
    IF Contains(entry_id, ArxivAbsMarker) THEN SplitLast(entry_id, ArxivAbsMarker)
    ELSE IF StartsWith(entry_id, ArxivColon) THEN RemoveAll(entry_id, ArxivColon)
    ELSE entry_id

\* ArxivClient._extract_paper_id, second half: the version is removed.
StripVersion(paper_id) ==
    IF Contains(paper_id, << "v" >>) THEN RSplitHead(paper_id, "v") ELSE paper_id

\* ArxivClient._extract_paper_id
ExtractPaperId(entry_id) == StripVersion(StripPrefix(entry_id))

\* ------------------------------------------------ identifier inputs

IdAlphabet == { "s", "v", "1", "." }
Digits == { "0", "1", "2", "3", "4", "5", "6", "7", "8", "9" }

RECURSIVE SeqsUpTo(_, _)
SeqsUpTo(S, n) ==
    IF n = 0 THEN { << >> }
    ELSE LET shorter == SeqsUpTo(S, n - 1)
         IN  shorter \cup { Append(s, c) : s \in shorter, c \in S }

\* s ends in a version suffix: the letter v followed by one or more digits.
EndsWithVersion(s) ==
    \E i \in 1..(Len(s) - 1) :
        /\ s[i] = "v"
        /\ \A j \in (i + 1)..Len(s) : s[j] \in Digits

\* Identifier bodies: they end in a digit, as arXiv identifiers do
\* (2601.00794, solv-int/9901001), and not in a version suffix of their own.
IdBodies ==
    { b \in SeqsUpTo(IdAlphabet, MaxIdLen) :
        b # << >> /\ b[Len(b)] \in Digits /\ ~EndsWithVersion(b) }

HttpPrefix ==
    << "h", "t", "t", "p", ":", "/", "/" >> \o ArxivAbsMarker
ExportPrefix ==
    << "h", "t", "t", "p", "s", ":", "/", "/", "e", "x", "p", "o", "r", "t", "." >>
        \o ArxivAbsMarker

IdPrefixes == { << >>, ArxivColon, HttpPrefix, ExportPrefix }
IdSuffixes == { << >>, << "v", "1" >>, << "v", "2", "3" >> }

VARIABLES
    idPc,           \* position of the identifier experiment
    idPrefix,       \* the input's prefix
    idBody,         \* the input's identifier proper
    idSuffix,       \* the input's version suffix
    extracted,      \* _extract_paper_id(entry_id)
    extractedTwice  \* _extract_paper_id(_extract_paper_id(entry_id))

idVars == << idPc, idPrefix, idBody, idSuffix, extracted, extractedTwice >>

IdEntry == idPrefix \o idBody \o idSuffix

IdIdle ==
    /\ idPc = "idle"
    /\ idPrefix = << >>
    /\ idBody = << >>
    /\ idSuffix = << >>
    /\ extracted = << >>
    /\ extractedTwice = << >>

IdInit ==
    /\ idPc = "input"
    /\ idPrefix \in IdPrefixes
    /\ idBody \in IdBodies
    /\ idSuffix \in IdSuffixes
    /\ extracted = << >>
    /\ extractedTwice = << >>


\* ------------------------------------------------ the incremental search

\* Items the filter of main keeps or drops, by what their content is:
\* extracted text, no content at all, or text holding the marker "404" /
\* "下载失败".
ContentKinds == { "text", "none", "404" }

\* The entry identifier the search API gives the item at stream position i.
EntryId(i) == HttpPrefix \o << "2", "6", ".", ToString(i) >> \o << "v", "1" >>

\* An identifier that no item of the stream carries.
ForeignId == << "2", "5", ".", "9" >>

VARIABLES
    pc,                    \* position of main
    run,                   \* number of the current run
    stream,                \* entry ids the external search yields, in order
    max_total_results,     \* SEARCH_CONFIG['max_total_results']
    watermark,             \* latest_paper_id in processed_papers.json
    last_processed_id,     \* search_papers: the watermark as loaded
    found_last_processed,  \* search_papers: the resume flag
    total_found,           \* search_papers: items scanned
    processed_count,       \* search_papers: items accepted
    all_results,           \* search_papers: the list returned
    results,               \* main: the list after the content filter
    success,               \* main: what summarize_papers gave
    skipped,               \* history: positions scanned without processing
    failed,                \* history: positions whose processing raised
    searchRaised,          \* history: the external search raised
    searchOutcome,         \* history: how search_papers ended
    mainOutcome,           \* history: how the run ended
    batchesFailed,         \* history: summarization batches that failed
    writes,                \* history: watermark writes of this run
    watermarkAtStart,      \* history: the watermark when the run began
    prevReturned,          \* history: ids the previous run returned
    prevSaved              \* history: the previous run saved its watermark

pipeVars ==
    << pc, run, stream, max_total_results, watermark, last_processed_id,
       found_last_processed, total_found, processed_count, all_results, results,
       success, skipped, failed, searchRaised, searchOutcome, mainOutcome,
       batchesFailed, writes, watermarkAtStart, prevReturned, prevSaved >>

\* State of the PDF text fetcher and the key-section extractor
\* (arxiv_client.py, download_and_extract_pdf_text and _extract_key_sections).
VARIABLES
    secPc,             \* position of the fetch / extract walk
    all_text,          \* the text of the PDF's pages, as its lines
    fetchOutcome,      \* history: how the download went
    pass,              \* 1: extraction of the PDF text, 2: of its own output
    lines,             \* _extract_key_sections: text.split('\n')
    line_i,            \* _extract_key_sections: the loop index i (0-based)
    sections,          \* _extract_key_sections: the dict of stored sections
    current_section,   \* _extract_key_sections: the open section
    current_content,   \* _extract_key_sections: the open section's buffer
    titled,            \* history: sections a title line opened in this pass
    keySections,       \* what _extract_key_sections returned for the PDF
    firstSections,     \* history: the dict at the end of pass 1
    reSections,        \* what it returned for its own output
    fetchResult,       \* what download_and_extract_pdf_text returned
    full_text,         \* search_papers: the record's full_text
    summary            \* history: the paper's abstract (paper.summary)

secVars ==
    << secPc, all_text, fetchOutcome, pass, lines, line_i, sections,
       current_section,
       current_content, titled, keySections, firstSections, reSections,
       fetchResult, full_text, summary >>

\* State of the embedding gateway (clustering.py, get_embeddings).
VARIABLES
    embPc,             \* position in get_embeddings
    texts,             \* len(texts): the texts are numbered 1..texts
    batch_size,        \* EMBEDDING_CONFIG['batch_size']
    apiDim,            \* the dimension of the endpoint's vectors
    batch_start,       \* the loop variable i of the batch loop
    embeddings,        \* the list being built and returned
    batchLog           \* history: each batch's outcome, texts and offset

embVars == << embPc, texts, batch_size, apiDim, batch_start, embeddings, batchLog >>

\* State of the clustering and of the choice of representatives
\* (clustering.py, called from paper_summarizer.py:626-641).
VARIABLES
    cluPc,                  \* position in the trend analysis
    paperVectors,           \* the embeddings, one for each paper
    method,                 \* history: the clustering function called
    n_clusters,             \* cluster_papers_kmeans: its parameter
    kRequested,             \* history: the n_clusters given to KMeans
    labels,                 \* the labels returned by the clustering
    top_n,                  \* select_representative_papers: its parameter
    representative_papers   \* the list it returns

cluVars ==
    << cluPc, paperVectors, method, n_clusters, kRequested, labels, top_n,
       representative_papers >>

\* State of the priority sort (paper_summarizer.py, _sort_papers_by_priority
\* and its call in summarize_papers).
VARIABLES
    sortPc,                 \* position of the walk
    caller,                 \* history: who calls the sort
    paper_data_list,        \* the records to sort
    trend_representatives,  \* _generate_trend_analysis: representative_papers
    sorted_paper_data       \* the list the sort returns

sortVars ==
    << sortPc, caller, paper_data_list, trend_representatives, sorted_paper_data >>

\* State of the watermark file (arxiv_client.py, _load_latest_processed_paper_id
\* and _save_latest_paper_id on output/processed_papers.json).
VARIABLES
    wmFile,            \* processed_papers.json: its shape and the ids it holds
    wmSaves,           \* history: the _save_latest_paper_id calls so far
    loaded             \* what _load_latest_processed_paper_id returned last

wmVars == << wmFile, wmSaves, loaded >>

\* State of one ModelClient.chat_completion call (paper_summarizer.py).
VARIABLES
    chatPc,            \* position in the retry loop
    retry_count,       \* LLM_CONFIG['retry_count']
    attempt,           \* the loop variable
    attemptLog,        \* history: how each attempt went
    sleeps,            \* history: time.sleep(retry_delay) calls so far
    chatResult         \* what the call returned

chatVars == << chatPc, retry_count, attempt, attemptLog, sleeps, chatResult >>

vars ==
    << idVars, pipeVars, secVars, embVars, cluVars, sortVars, wmVars,
       chatVars >>

\* The paper ids of a list of result records, in order.
Ids(rs) == [ i \in 1..Len(rs) |-> rs[i].paper_id ]
IdSet(rs) == { rs[i].paper_id : i \in 1..Len(rs) }

\* Python truthiness of a string or None.
Truthy(s) == s # None

\* ArxivClient._load_latest_processed_paper_id on the current file.  The
\* pipeline keeps the file as the identifier a load gives (None: no file or
\* nothing loadable); the file's shapes are told apart by LoadFromFile.
LoadLatestProcessedPaperId(file) == file

\* search_papers, lines 436-442: the resume flag before the scan.
InitialFound(lpid) ==
    LET found0 == FALSE
    IN  IF ~Truthy(lpid) \/ (Truthy(lpid) /\ ~found0) THEN TRUE ELSE found0

\* search_papers, line 461: the processing cap is reached.
CapReachedOffByOne(count, cap) == count > cap
CapReachedEarly(count, cap) == count + 1 >= cap
CapReached(count, cap) == count >= cap

\* search_papers, lines 480-497 and 499-501: the effect of processing one
\* accepted item, which either raises (nothing is kept) or is appended.
ProcessItemCountsFailure(rs, count, rec, raises) ==
    IF raises THEN [ all_results |-> rs, processed_count |-> count + 1 ]
    ELSE [ all_results |-> Append(rs, rec), processed_count |-> count + 1 ]
ProcessItem(rs, count, rec, raises) ==
    IF raises THEN [ all_results |-> rs, processed_count |-> count ]
    ELSE [ all_results |-> Append(rs, rec), processed_count |-> count + 1 ]

\* search_papers' except block, lines 503-507: the error is printed and the
\* function goes on to return what it has.
SearchExceptReraises == "raised"
SearchExcept == "returned"

PipeIdle ==
    /\ pc = "idle"
    /\ run = 0
    /\ stream = << >>
    /\ max_total_results = 0
    /\ watermark = None
    /\ last_processed_id = None
    /\ found_last_processed = FALSE
    /\ total_found = 0
    /\ processed_count = 0
    /\ all_results = << >>
    /\ results = << >>
    /\ success = "unset"
    /\ skipped = {}
    /\ failed = {}
    /\ searchRaised = FALSE
    /\ searchOutcome = "unset"
    /\ mainOutcome = "unset"
    /\ batchesFailed = 0
    /\ writes = 0
    /\ watermarkAtStart = None
    /\ prevReturned = {}
    /\ prevSaved = FALSE

RunReset ==
    /\ last_processed_id' = None
    /\ found_last_processed' = FALSE
    /\ total_found' = 0
    /\ processed_count' = 0
    /\ all_results' = << >>
    /\ results' = << >>
    /\ success' = "unset"
    /\ skipped' = {}
    /\ failed' = {}
    /\ searchRaised' = FALSE
    /\ searchOutcome' = "unset"
    /\ mainOutcome' = "unset"
    /\ batchesFailed' = 0
    /\ writes' = 0

PipeInit ==
    /\ pc = "start"
    /\ run = 1
    /\ \E n \in 0..MaxStream : stream = [ i \in 1..n |-> EntryId(i) ]
    /\ max_total_results \in 1..MaxCap
    /\ watermark \in { None, ForeignId }
                       \cup { ExtractPaperId(EntryId(i)) : i \in 1..MaxStream }
    /\ last_processed_id = None
    /\ found_last_processed = FALSE
    /\ total_found = 0
    /\ processed_count = 0
    /\ all_results = << >>
    /\ results = << >>
    /\ success = "unset"
    /\ skipped = {}
    /\ failed = {}
    /\ searchRaised = FALSE
    /\ searchOutcome = "unset"
    /\ mainOutcome = "unset"
    /\ batchesFailed = 0
    /\ writes = 0
    /\ watermarkAtStart = watermark
    /\ prevReturned = {}
    /\ prevSaved = FALSE


\* ------------------------------------------------------- the summarizer

\* PaperSummarizer.max_papers_per_batch
max_papers_per_batch == 5

\* _generate_batch_summary: the number of batches range(0, n, batch) makes.
BatchCount(n) == (n + max_papers_per_batch - 1) \div max_papers_per_batch

\* summarize_papers: True once the report file is written, whether or not
\* any batch produced paper data; False when anything in it raised.
SummarizePapers(nFailed, nBatches, raises) == IF raises THEN "false" ELSE "true"

\* main, lines 62-72: the content filter.
ContentValid(kind) == kind = "text"
ValidResults(rs) == SelectSeq(rs, LAMBDA r : ContentValid(r.content))

\* main, lines 102-109: the identifier main saves.
WatermarkOfFirst(rs) == rs[1].paper_id
WatermarkOf(rs) ==
    LET last_paper == rs[Len(rs)]
    IN  IF Truthy(last_paper.paper_id) THEN last_paper.paper_id
        ELSE ExtractPaperId(last_paper.entry_id)

\* --------------------------------------------- key sections of a PDF text

\* Longest page text, in lines, drawn as an input of the extractor.
MaxLines == 4
\* _extract_key_sections: the character cap of one section.
SectionMaxChars == 8000
\* download_and_extract_pdf_text: the cap of a text without key sections.
HeadMaxChars == 20000

\* A line is a record: what it reads and how many characters it has.  The
\* text "xxx..." is a run of the letter x, of the length the record gives.
LongText == "xxx..."
TokenLen(t) ==
    CASE t = "" -> 0
      [] t = "1. Introduction" -> 15
      [] t = "Related Work" -> 12
      [] t = "  Method " -> 9
      [] t = "Method" -> 6
      [] t = "Conclusion" -> 10
      [] t = "4. Experiments" -> 14
      [] t = "Some text." -> 10
      [] t = "=== Abstract ===" -> 16
      [] t = "=== Introduction ===" -> 20
      [] t = "=== Related Work ===" -> 20
      [] t = "=== Method ===" -> 14
      [] t = "=== Conclusion ===" -> 18
      [] t = "[note: section truncated]" -> 11
      [] t = LongText -> SectionMaxChars
Line(t) == [text |-> t, len |-> TokenLen(t)]
EmptyLine == Line("")
LongLine == Line(LongText)
\* The marker appended to a cut section (eleven characters in the source).
TruncationNote == Line("[note: section truncated]")

\* The lines a page text is drawn from: the four titles (one of them with
\* surrounding blanks), a numbered heading that is no title, plain text and
\* a line as long as the section cap.
LineKinds ==
    { Line("1. Introduction"), Line("Related Work"), Line("  Method "),
      Line("Conclusion"), Line("4. Experiments"), Line("Some text."),
      LongLine }

\* str.strip() of a line.
Strip(l) == IF l.text = "  Method " THEN Line("Method") ELSE l

NoSection == "none"
\* The keys of section_patterns, in the dict's order.
SectionKeys == << "introduction", "related_work", "method", "conclusion" >>
\* re.match of a stripped line against the patterns of one section.
MatchesSection(section_name, l) ==
    CASE section_name = "introduction" -> l.text = "1. Introduction"
      [] section_name = "related_work" -> l.text = "Related Work"
      [] section_name = "method" -> l.text = "Method"
      [] section_name = "conclusion" -> l.text = "Conclusion"
\* re.match(r'^\s*[0-9]+\.?\s+[A-Z]', line).
IsNumberedHeading(l) == l.text \in { "1. Introduction", "4. Experiments" }
IsTargetSection(l) == \E k \in 1..Len(SectionKeys) : MatchesSection(SectionKeys[k], l)

\* The title search of one loop iteration at index idx (0-based): for each
\* section in turn, the current line and then the next line are tried
\* before the following section is.  skip is 1 when the next line matched.
RECURSIVE FindSectionCurrentOnly(_, _, _)
FindSectionCurrentOnly(k, ls, idx) ==
    IF k > Len(SectionKeys) THEN [found |-> NoSection, skip |-> 0]
    ELSE IF MatchesSection(SectionKeys[k], Strip(ls[idx + 1]))
         THEN [found |-> SectionKeys[k], skip |-> 0]
         ELSE FindSectionCurrentOnly(k + 1, ls, idx)
RECURSIVE FindSection(_, _, _)
FindSection(k, ls, idx) ==
    IF k > Len(SectionKeys) THEN [found |-> NoSection, skip |-> 0]
    ELSE LET section_name == SectionKeys[k]
         IN  IF MatchesSection(section_name, Strip(ls[idx + 1]))
             THEN [found |-> section_name, skip |-> 0]
             ELSE IF idx + 1 < Len(ls) /\ MatchesSection(section_name, Strip(ls[idx + 2]))
                  THEN [found |-> section_name, skip |-> 1]
                  ELSE FindSection(k + 1, ls, idx)

\* A numbered heading closes the open section unless that is the conclusion.
HeadingClosesAny(cur, l) == ~IsTargetSection(l)
HeadingCloses(cur, l) == ~IsTargetSection(l) /\ cur # "conclusion"

\* sections[current_section] = '\n'.join(current_content), when both are set.
StoreSection(secs, cur, content) ==
    IF cur # NoSection /\ content # << >> THEN [secs EXCEPT ![cur] = content]
    ELSE secs

\* len('\n'.join(ls)).
RECURSIVE TextLen(_)
TextLen(ls) ==
    IF ls = << >> THEN 0
    ELSE IF Len(ls) = 1 THEN ls[1].len
    ELSE ls[1].len + 1 + TextLen(Tail(ls))

\* The first n characters of a line.  Only the long line is ever cut in the
\* inputs drawn here; a part of any other line is taken as plain text.
CutLine(l, n) ==
    IF n >= l.len THEN l
    ELSE IF n = 0 THEN EmptyLine
    ELSE [text |-> IF l.text = LongText THEN LongText ELSE "...", len |-> n]

\* '\n'.join(ls)[:n] as lines.
RECURSIVE TakeChars(_, _)
TakeChars(ls, n) ==
    IF ls = << >> THEN << >>
    ELSE LET h == Head(ls)
         IN  IF n <= h.len \/ Len(ls) = 1 THEN << CutLine(h, n) >>
             ELSE IF n = h.len + 1 THEN << h, EmptyLine >>
             ELSE << h >> \o TakeChars(Tail(ls), n - h.len - 1)

\* Lines 331-332: a section over the cap is cut and marked.
Truncate(content) ==
    IF TextLen(content) > SectionMaxChars
    THEN TakeChars(content, SectionMaxChars) \o << EmptyLine, TruncationNote >>
    ELSE content

Banner(key) ==
    CASE key = "introduction" -> Line("=== Introduction ===")
      [] key = "related_work" -> Line("=== Related Work ===")
      [] key = "method" -> Line("=== Method ===")
      [] key = "conclusion" -> Line("=== Conclusion ===")

\* The order the sections are emitted in (line 327).
OutputKeysReversed == << "conclusion", "method", "related_work", "introduction" >>
OutputKeys == << "introduction", "related_work", "method", "conclusion" >>

NoSections == [ k \in { SectionKeys[n] : n \in 1..Len(SectionKeys) } |-> << >> ]
InSections(secs, key) == secs[key] # << >>

\* '\n\n'.join(result_parts) as lines.
RECURSIVE JoinParts(_, _)
JoinParts(keys, secs) ==
    LET part == << Banner(Head(keys)) >> \o Truncate(secs[Head(keys)])
    IN  IF Len(keys) = 1 THEN part
        ELSE part \o << EmptyLine >> \o JoinParts(Tail(keys), secs)

NullText == [found |-> FALSE, lines |-> << >>]
\* Lines 318-337: the text returned for a dict of sections.
ComposeSections(secs) ==
    LET present == SelectSeq(OutputKeys, LAMBDA key : InSections(secs, key))
    IN  IF present = << >> THEN NullText
        ELSE [found |-> TRUE, lines |-> JoinParts(present, secs)]

\* download_and_extract_pdf_text, line 193: a text without key sections.
HeadOf(ls) == IF TextLen(ls) > HeadMaxChars THEN TakeChars(ls, HeadMaxChars) ELSE ls

\* What the fetcher hands back: nothing, the key sections, or the head.
Pending == [kind |-> "pending", lines |-> << >>]
NullResult == [kind |-> "null", lines |-> << >>]
Raised == [kind |-> "raised", lines |-> << >>]
\* Lines 161-163 and 195-200: a bad status, a timeout and any other
\* exception all give None.
FetchFailureRaises(outcome) == IF outcome = "status" THEN NullResult ELSE Raised
FetchFailure(outcome) == NullResult

\* How a download can go: a status other than 200, a timeout, any other
\* exception (connection, PDF parsing), pages without text, pages with text.
FailureOutcomes == { "status", "timeout", "error" }

SecIdle ==
    /\ secPc = "idle"
    /\ all_text = << >>
    /\ fetchOutcome = "none"
    /\ pass = 0
    /\ lines = << >>
    /\ line_i = 0
    /\ sections = NoSections
    /\ current_section = NoSection
    /\ current_content = << >>
    /\ titled = { }
    /\ keySections = NullText
    /\ firstSections = NoSections
    /\ reSections = NullText
    /\ fetchResult = Pending
    /\ full_text = Pending
    /\ summary = << >>

SecInit ==
    /\ secPc = "input"
    /\ all_text \in SeqsUpTo(LineKinds, MaxLines)
    /\ fetchOutcome = "none"
    /\ pass = 0
    /\ lines = << >>
    /\ line_i = 0
    /\ sections = NoSections
    /\ current_section = NoSection
    /\ current_content = << >>
    /\ titled = { }
    /\ keySections = NullText
    /\ firstSections = NoSections
    /\ reSections = NullText
    /\ fetchResult = Pending
    /\ full_text = Pending
    /\ summary = << >>

\* ------------------------------------------------------ embedding gateway

\* Largest number of texts handed to get_embeddings.
MaxTexts == 4
\* Largest configured EMBEDDING_CONFIG['batch_size'] (configuration, 200 in
\* config/settings.py).
MaxBatchSize == 2
\* Line 64: the dimension of the placeholder vector of a failed batch.
ZeroDim == 768
\* A dimension of the endpoint's model that differs from the placeholder's.
OtherDim == 1024

\* A vector is known by where it comes from, the text it was made for (0: no
\* text of the call) and its dimension; its components play no part here.
ZeroVector(t) == [src |-> "zero", text |-> t, dim |-> ZeroDim]
\* Lines 62-64: one placeholder per text of the batch (from, to: the
\* positions of the batch's texts).
OneZeroVector(from, to) == << ZeroVector(from) >>
ZeroVectors(from, to) == [ n \in 1..(to - from + 1) |-> ZeroVector(from + n - 1) ]
\* Lines 53-55: the vectors of a response whose data list has m items; item
\* n answers the batch's n-th text, an item beyond the batch answers none.
ApiVectors(from, to, m, d) ==
    [ n \in 1..m |-> [src |-> "api",
                      text |-> IF from + n - 1 <= to THEN from + n - 1 ELSE 0,
                      dim |-> d] ]

\* What the endpoint can do with one request: no answer (network error or
\* timeout), a status that raise_for_status rejects, a body without 'data',
\* a data item without 'embedding', a data list.
BatchFailures == { "network_error", "http_error", "no_data_key", "bad_item" }

EmbIdle ==
    /\ embPc = "idle"
    /\ texts = 0
    /\ batch_size = 1
    /\ apiDim = ZeroDim
    /\ batch_start = 0
    /\ embeddings = << >>
    /\ batchLog = << >>

EmbInit ==
    /\ embPc = "start"
    /\ texts \in 0..MaxTexts
    /\ batch_size \in 1..MaxBatchSize
    /\ apiDim \in { ZeroDim, OtherDim }
    /\ batch_start = 0
    /\ embeddings = << >>
    /\ batchLog = << >>

\* ------------------------------------------- clustering and representatives

\* Largest number of papers (and of vectors) clustered.
MaxPapers == 4
\* Largest configured CLUSTERING_CONFIG['n_clusters'] (configuration).
MaxK == 2
\* Largest top_n given to select_representative_papers (configuration).
MaxTopN == 2
\* The noise label of the density method.
NoiseLabel == -1
\* Lines 248-249: the rank and the distance a noise representative carries.
NoiseRank == 999

\* A vector is one coordinate; the distances below are Euclidean in it.
Coords == { 0, 1 }

\* KMeans(n_clusters=k).fit_predict on n vectors, by the library's contract:
\* it raises unless 1 <= k <= n, and gives each vector a label in 0..k-1.
KMeansFit(k, n) ==
    IF k >= 1 /\ k <= n
    THEN { [raised |-> FALSE, labels |-> f] : f \in [1..n -> 0..(k - 1)] }
    ELSE { [raised |-> TRUE, labels |-> << >>] }
\* DBSCAN(...).fit(...).labels_ on n vectors, by the library's contract: one
\* label for each vector, the noise label or a cluster number from 0 up
\* (the clusters 0 and 1 are followed here).
DbscanLabels == { NoiseLabel, 0, 1 }
DbscanFit(n) ==
    { [raised |-> FALSE, labels |-> f] : f \in [1..n -> DbscanLabels] }

\* cluster_papers_kmeans, line 91: the number of clusters asked for.
KRequestedUncapped(K, n) == K
KRequested(K, n) == Min(K, n)

\* cluster_to_papers[l]: the positions of the papers labelled l, ascending.
Members(ls, l) == { p \in 1..Len(ls) : ls[p] = l }
ClusterSize(ls, l) == Cardinality(Members(ls, l))
FirstMember(ls, l) == CHOOSE p \in Members(ls, l) : \A q \in Members(ls, l) : p <= q
\* Line 194: the labels of the real clusters.
ValidClusters(ls) == { ls[p] : p \in 1..Len(ls) } \ { NoiseLabel }
\* Line 195: cluster m comes before cluster l after the stable sort by
\* descending size (the dict keeps labels in order of first appearance).
SmallerFirst(ls, m, l) ==
    \/ ClusterSize(ls, m) < ClusterSize(ls, l)
    \/ ClusterSize(ls, m) = ClusterSize(ls, l) /\ FirstMember(ls, m) < FirstMember(ls, l)
LargerFirst(ls, m, l) ==
    \/ ClusterSize(ls, m) > ClusterSize(ls, l)
    \/ ClusterSize(ls, m) = ClusterSize(ls, l) /\ FirstMember(ls, m) < FirstMember(ls, l)
\* The position (from 0) of cluster l in the sorted list: its cluster_rank.
ClusterRank(ls, l) == Cardinality({ m \in ValidClusters(ls) : LargerFirst(ls, m, l) })
\* The sorted list without the cut to top_n.
AllClusters(ls, n) ==
    [ r \in 1..Cardinality(ValidClusters(ls)) |->
        CHOOSE l \in ValidClusters(ls) : ClusterRank(ls, l) = r - 1 ]
\* Line 196: valid_clusters[:top_n], as the sequence of labels.
TopClusters(ls, n) ==
    LET kept == { l \in ValidClusters(ls) : ClusterRank(ls, l) < n }
    IN  [ r \in 1..Cardinality(kept) |-> CHOOSE l \in kept : ClusterRank(ls, l) = r - 1 ]

RECURSIVE SumCoords(_, _)
SumCoords(vs, ps) ==
    IF ps = { } THEN 0
    ELSE LET p == CHOOSE q \in ps : TRUE
         IN  vs[p] + SumCoords(vs, ps \ { p })
Abs(x) == IF x < 0 THEN -x ELSE x
\* Lines 209-216: the distance of paper p to the centre of its cluster l,
\* times the cluster's size (the centre is the mean of the members).
DistanceTimesSize(vs, ls, l, p) ==
    Abs(ClusterSize(ls, l) * vs[p] - SumCoords(vs, Members(ls, l)))
\* Line 219: member q comes before member p after the stable sort by distance.
NearerFirst(vs, ls, l, q, p) ==
    \/ DistanceTimesSize(vs, ls, l, q) < DistanceTimesSize(vs, ls, l, p)
    \/ DistanceTimesSize(vs, ls, l, q) = DistanceTimesSize(vs, ls, l, p) /\ q < p
NearRank(vs, ls, l, p) ==
    Cardinality({ q \in Members(ls, l) : NearerFirst(vs, ls, l, q, p) })
\* Line 222: how many members of a cluster of the given size are taken.
NumToSelectAll(cluster_size) == cluster_size
NumToSelect(cluster_size) == MaxOf({ 1, cluster_size \div 2 })

\* Lines 224-231: the representatives of cluster l, nearest first, tagged.
ClusterRepresentatives(vs, ls, l) ==
    LET taken == { p \in Members(ls, l) :
                     NearRank(vs, ls, l, p) < NumToSelect(ClusterSize(ls, l)) }
    IN  [ r \in 1..Cardinality(taken) |->
            LET p == CHOOSE q \in taken : NearRank(vs, ls, l, q) = r - 1
            IN  [index |-> p,
                 cluster_id |-> l,
                 cluster_size |-> ClusterSize(ls, l),
                 cluster_rank |-> ClusterRank(ls, l),
                 distance_times_size |-> DistanceTimesSize(vs, ls, l, p)] ]

RECURSIVE RepresentativesOf(_, _, _)
RepresentativesOf(vs, ls, top) ==
    IF top = << >> THEN << >>
    ELSE ClusterRepresentatives(vs, ls, Head(top)) \o RepresentativesOf(vs, ls, Tail(top))

\* Line 239: the number of noise papers taken.
NumNoiseToSelectAll(ls) == ClusterSize(ls, NoiseLabel)
NumNoiseToSelect(ls) == Min(2, ClusterSize(ls, NoiseLabel))
\* Line 243: what random.sample can give: the sequences of that many
\* distinct noise papers.
NoiseSamples(ls) ==
    { s \in SeqsUpTo(Members(ls, NoiseLabel), NumNoiseToSelect(ls)) :
        /\ Len(s) = NumNoiseToSelect(ls)
        /\ \A a, b \in 1..Len(s) : a # b => s[a] # s[b] }
\* Lines 244-251: a noise representative and its reserved tags (the
\* distance 999.0 is kept as 999 times a size of 1).
NoiseRepresentative(p) ==
    [index |-> p, cluster_id |-> NoiseLabel, cluster_size |-> 0,
     cluster_rank |-> NoiseRank, distance_times_size |-> NoiseRank]

\* select_representative_papers, lines 178-255, for one draw of the sample.
SelectRepresentativePapers(vs, ls, n, sample) ==
    IF Len(vs) = 0 THEN << >>
    ELSE RepresentativesOf(vs, ls, TopClusters(ls, n))
         \o [ a \in 1..Len(sample) |-> NoiseRepresentative(sample[a]) ]

CluIdle ==
    /\ cluPc = "idle"
    /\ paperVectors = << >>
    /\ method = "none"
    /\ n_clusters = 0
    /\ kRequested = 0
    /\ labels = << >>
    /\ top_n = 0
    /\ representative_papers = << >>

CluInit ==
    /\ cluPc = "start"
    /\ paperVectors \in SeqsUpTo(Coords, MaxPapers)
    /\ method = "none"
    /\ n_clusters = 0
    /\ kRequested = 0
    /\ labels = << >>
    /\ top_n = 0
    /\ representative_papers = << >>

\* ------------------------------------------------ priority sort of papers

\* Longest paper_data_list handed to _sort_papers_by_priority.
MaxSortLen == 3

\* The 'decision' of a record: the three values the prompt asks for
\* (recommended, borderline, not recommended), no 'decision' key at all,
\* and a value the priority table does not know.
Decisions == { "recommended", "borderline", "not_recommended", "absent", "other" }
\* The cluster tags of a record: none, or a rank and a distance.
NoTags == [tagged |-> FALSE, rank |-> 0, distance |-> 0]
TagChoices ==
    { NoTags,
      [tagged |-> TRUE, rank |-> 0, distance |-> 0],
      [tagged |-> TRUE, rank |-> 0, distance |-> 1],
      [tagged |-> TRUE, rank |-> 1, distance |-> 0] }

\* Lines 961-966 and 969, 974: decision_priority, with the defaults of the
\* two get calls (a record without the key counts as not assessed: 3).
DecisionPriority(p) ==
    CASE p.decision = "recommended" -> 0
      [] p.decision = "borderline" -> 1
      [] p.decision = "not_recommended" -> 2
      [] p.decision = "absent" -> 3
      [] OTHER -> 999
\* Lines 968-977: sort_key.
SortKeyWithoutDistance(p) ==
    << DecisionPriority(p), IF p.tags.tagged THEN p.tags.rank ELSE 999, 0 >>
SortKey(p) ==
    << DecisionPriority(p),
       IF p.tags.tagged THEN p.tags.rank ELSE 999,
       IF p.tags.tagged THEN p.tags.distance ELSE 999 >>
\* Python's order on tuples.
KeyLess(a, b) ==
    \/ a[1] < b[1]
    \/ a[1] = b[1] /\ a[2] < b[2]
    \/ a[1] = b[1] /\ a[2] = b[2] /\ a[3] < b[3]
\* Line 979: sorted(paper_data_list, key=sort_key), a stable sort: each
\* record in turn goes behind the records whose key is not greater.
RECURSIVE InsertByKey(_, _)
InsertByKey(done, p) ==
    IF done = << >> THEN << p >>
    ELSE IF KeyLess(SortKey(p), SortKey(Head(done))) THEN << p >> \o done
    ELSE << Head(done) >> \o InsertByKey(Tail(done), p)
RECURSIVE SortPapersByPriority(_)
SortPapersByPriority(ps) ==
    IF ps = << >> THEN << >>
    ELSE InsertByKey(SortPapersByPriority(SubSeq(ps, 1, Len(ps) - 1)), ps[Len(ps)])

\* The records of a list of the given decisions and tags, numbered by their
\* place in the list.
Records(ds, ts) == [ n \in 1..Len(ds) |-> [pos |-> n, decision |-> ds[n], tags |-> ts[n]] ]

SortIdle ==
    /\ sortPc = "idle"
    /\ caller = "none"
    /\ paper_data_list = << >>
    /\ trend_representatives = << >>
    /\ sorted_paper_data = << >>

\* Either the function is given any list (caller "any"), or summarize_papers
\* is followed (caller "summarize_papers"), whose records come from
\* _generate_batch_summary and carry no cluster tags.
SortInit ==
    /\ \E n \in 0..MaxSortLen :
         \E ds \in [1..n -> Decisions] :
            \/ /\ caller = "any"
               /\ sortPc = "sort"
               /\ \E ts \in [1..n -> TagChoices] : paper_data_list = Records(ds, ts)
            \/ /\ caller = "summarize_papers"
               /\ sortPc = "trend"
               /\ paper_data_list = Records(ds, [m \in 1..n |-> NoTags])
    /\ trend_representatives = << >>
    /\ sorted_paper_data = << >>

\* ------------------------------------------------------ the watermark file

\* The identifiers saved and found in the file.
WmIds == { << "1" >>, << "2" >> }

\* The lists of identifiers a legacy file can hold, the empty one included.
WmLists == SeqsUpTo(WmIds, 2)

\* processed_papers.json as _load_latest_processed_paper_id tells its shapes
\* apart: no file; a file json.load cannot parse; a dict with the key
\* 'latest_paper_id'; a dict without it whose 'paper_ids' is a list; a list;
\* any other JSON value.
AbsentFile == [shape |-> "absent", ids |-> << >>]
UnreadableFile == [shape |-> "unreadable", ids |-> << >>]
LatestFile(paper_id) == [shape |-> "latest", ids |-> << paper_id >>]
OtherFile == [shape |-> "other", ids |-> << >>]
WmFiles ==
    { AbsentFile, UnreadableFile, OtherFile }
    \cup { LatestFile(id) : id \in WmIds }
    \cup { [shape |-> "paper_ids", ids |-> l] : l \in WmLists }
    \cup { [shape |-> "list", ids |-> l] : l \in WmLists }

\* Lines 25-46, with the element a legacy list gives taken from its end.
LoadFromFileLast(file) ==
    IF file.shape = "latest" THEN file.ids[1]
    ELSE IF file.shape \in { "paper_ids", "list" } /\ Len(file.ids) > 0
         THEN file.ids[Len(file.ids)]
    ELSE None

\* Lines 25-46: None without a file (line 46) and when reading raises (lines
\* 43-45); data['latest_paper_id'] of a dict that has it (lines 34-35);
\* element 0 of a non-empty 'paper_ids' list (lines 37-38) or of a non-empty
\* list (lines 39-41); None for everything else (line 42).
LoadFromFile(file) ==
    IF file.shape = "latest" THEN file.ids[1]
    ELSE IF file.shape \in { "paper_ids", "list" } /\ Len(file.ids) > 0
         THEN file.ids[1]
    ELSE None

\* How a _save_latest_paper_id call can go.  "written": lines 52-62 ran
\* through.  "not_opened": mkdir (line 52) or open (line 60) raised, before
\* the file was touched.  "not_dumped": the write raised after open(..., 'w')
\* had truncated the file.  Lines 64-65 swallow both failures.
SaveOutcomes == { "written", "not_opened", "not_dumped" }

\* Lines 48-65: the file after the call.
SaveToFile(file, paper_id, outcome) ==
    IF outcome = "written" THEN LatestFile(paper_id)
    ELSE IF outcome = "not_opened" THEN file
    ELSE UnreadableFile

NotLoaded == << "not loaded" >>

WmIdle ==
    /\ wmFile = AbsentFile
    /\ wmSaves = << >>
    /\ loaded = NotLoaded

WmInit ==
    /\ wmFile \in WmFiles
    /\ wmSaves = << >>
    /\ loaded = NotLoaded

\* ------------------------------------------------------- the LLM call

\* How one requests.post attempt can go (lines 66-91): a 200 response with
\* the expected JSON; requests.Timeout; a status other than 200 (line 73-74);
\* any other exception (a connection error, a response that is not the
\* expected JSON).
AttemptOutcomes == { "ok", "timeout", "status", "error" }

NoCall == [kind |-> "none"]
Response == [kind |-> "response"]
ReturnedNone == [kind |-> "returned_none"]
ChatRaised == [kind |-> "raised"]

\* Line 98: attempt == LLM_CONFIG['retry_count'] - 1.
IsLastAttempt(a, n) == a = n - 1

ChatIdle ==
    /\ chatPc = "idle"
    /\ retry_count = 0
    /\ attempt = 0
    /\ attemptLog = << >>
    /\ sleeps = 0
    /\ chatResult = NoCall

ChatInit ==
    /\ chatPc = "attempt"
    /\ retry_count \in 1..MaxRetryCount
    /\ attempt = 0
    /\ attemptLog = << >>
    /\ sleeps = 0
    /\ chatResult = NoCall

\* ------------------------------------------------------------- actions

PipeOthers ==
    UNCHANGED << idVars, secVars, embVars, cluVars, sortVars, wmVars, chatVars >>
IdOthers ==
    UNCHANGED << pipeVars, secVars, embVars, cluVars, sortVars, wmVars, chatVars >>

\* search_papers, lines 399-442: the watermark is loaded and the scan set up.
StartSearch ==
    /\ pc = "start"
    /\ LET lpid == LoadLatestProcessedPaperId(watermark)
       IN  /\ last_processed_id' = lpid
           /\ found_last_processed' = InitialFound(lpid)
    /\ total_found' = 0
    /\ processed_count' = 0
    /\ all_results' = << >>
    /\ pc' = "scan"
    /\ UNCHANGED << run, stream, max_total_results, watermark, results, success,
                    skipped, failed, searchRaised, searchOutcome, mainOutcome,
                    batchesFailed, writes, watermarkAtStart, prevReturned,
                    prevSaved >>
    /\ PipeOthers

\* search_papers, lines 444-501: one iteration of the scan loop.
ScanItem ==
    /\ pc = "scan"
    /\ total_found < Len(stream)
    /\ LET i == total_found + 1
           paper_id == ExtractPaperId(stream[i])
       IN  /\ total_found' = i
           /\ IF ~found_last_processed
              THEN /\ found_last_processed' = (paper_id = last_processed_id)
                   /\ skipped' = skipped \cup { i }
                   /\ UNCHANGED << pc, processed_count, all_results, failed,
                                   searchOutcome >>
              ELSE IF CapReached(processed_count, max_total_results)
              THEN /\ pc' = "searched"
                   /\ searchOutcome' = "returned"
                   /\ UNCHANGED << found_last_processed, skipped, processed_count,
                                   all_results, failed >>
              ELSE \E raises \in BOOLEAN, kind \in ContentKinds :
                       LET rec == [ paper_id |-> paper_id, entry_id |-> stream[i],
                                    pos |-> i, content |-> kind ]
                           out == ProcessItem(all_results, processed_count, rec, raises)
                       IN  /\ raises => kind = "none"
                           /\ all_results' = out.all_results
                           /\ processed_count' = out.processed_count
                           /\ failed' = IF raises THEN failed \cup { i } ELSE failed
                           /\ UNCHANGED << pc, found_last_processed, skipped,
                                           searchOutcome >>
    /\ UNCHANGED << run, stream, max_total_results, watermark, last_processed_id,
                    results, success, searchRaised, mainOutcome, batchesFailed,
                    writes, watermarkAtStart, prevReturned, prevSaved >>
    /\ PipeOthers

\* search_papers, lines 444 and 509-514: the stream is exhausted.
StreamExhausted ==
    /\ pc = "scan"
    /\ total_found = Len(stream)
    /\ pc' = "searched"
    /\ searchOutcome' = "returned"
    /\ UNCHANGED << run, stream, max_total_results, watermark, last_processed_id,
                    found_last_processed, total_found, processed_count, all_results,
                    results, success, skipped, failed, searchRaised, mainOutcome,
                    batchesFailed, writes, watermarkAtStart, prevReturned,
                    prevSaved >>
    /\ PipeOthers

\* search_papers, lines 432-444 and 503-514: the external search raises (when
\* it is set up, or while the next result is fetched).
SearchRaises ==
    /\ pc = "scan"
    /\ total_found < Len(stream) \/ Len(stream) = 0
    /\ searchRaised' = TRUE
    /\ searchOutcome' = SearchExcept
    /\ pc' = IF SearchExcept = "returned" THEN "searched" ELSE "end"
    /\ mainOutcome' = IF SearchExcept = "returned" THEN mainOutcome ELSE "crashed"
    /\ UNCHANGED << run, stream, max_total_results, watermark, last_processed_id,
                    found_last_processed, total_found, processed_count, all_results,
                    results, success, skipped, failed, batchesFailed, writes,
                    watermarkAtStart, prevReturned, prevSaved >>
    /\ PipeOthers

\* main, lines 56-92: the content filter and the no-new-papers exit.
FilterResults ==
    /\ pc = "searched"
    /\ results' = ValidResults(all_results)
    /\ IF ValidResults(all_results) = << >>
       THEN pc' = "end" /\ mainOutcome' = "no_papers"
       ELSE pc' = "summarize" /\ UNCHANGED mainOutcome
    /\ UNCHANGED << run, stream, max_total_results, watermark, last_processed_id,
                    found_last_processed, total_found, processed_count, all_results,
                    success, skipped, failed, searchRaised, searchOutcome,
                    batchesFailed, writes, watermarkAtStart, prevReturned,
                    prevSaved >>
    /\ PipeOthers

\* main, lines 94-132, with summarize_papers and _save_latest_paper_id.
Summarize ==
    /\ pc = "summarize"
    /\ \E nFailed \in 0..BatchCount(Len(results)), raises \in BOOLEAN,
          saveOk \in BOOLEAN :
          LET ok == SummarizePapers(nFailed, BatchCount(Len(results)), raises)
              paper_id == WatermarkOf(results)
              saves == ok = "true" /\ Truthy(paper_id) /\ saveOk
          IN  /\ success' = ok
              /\ batchesFailed' = nFailed
              /\ watermark' = IF saves THEN paper_id ELSE watermark
              /\ writes' = IF saves THEN writes + 1 ELSE writes
              /\ mainOutcome' = IF ok = "true" THEN "summarized" ELSE "summary_failed"
    /\ pc' = "end"
    /\ UNCHANGED << run, stream, max_total_results, last_processed_id,
                    found_last_processed, total_found, processed_count, all_results,
                    results, skipped, failed, searchRaised, searchOutcome,
                    watermarkAtStart, prevReturned, prevSaved >>
    /\ PipeOthers

\* The job is started again over the same result stream.
NextRun ==
    /\ pc = "end"
    /\ run < MaxRuns
    /\ run' = run + 1
    /\ pc' = "start"
    /\ prevReturned' = IdSet(all_results)
    /\ prevSaved' = (writes > 0)
    /\ watermarkAtStart' = watermark
    /\ RunReset
    /\ UNCHANGED << stream, max_total_results, watermark >>
    /\ PipeOthers

PipeNext ==
    \/ StartSearch
    \/ ScanItem
    \/ StreamExhausted
    \/ SearchRaises
    \/ FilterResults
    \/ Summarize
    \/ NextRun

Init ==
    PipeInit /\ IdIdle /\ SecIdle /\ EmbIdle /\ CluIdle /\ SortIdle
    /\ WmIdle /\ ChatIdle

Next == PipeNext

Spec == Init /\ [][Next]_vars

\* The same with progress: the sequential code takes its next step and the
\* job is started again (it is run once a day) until MaxRuns runs are done.
SpecProgress == Init /\ [][Next]_vars /\ WF_vars(Next)

\* _extract_paper_id applied to the drawn entry identifier.
ExtractOnce ==
    /\ idPc = "input"
    /\ extracted' = ExtractPaperId(IdEntry)
    /\ idPc' = "once"
    /\ UNCHANGED << idPrefix, idBody, idSuffix, extractedTwice >>
    /\ IdOthers

\* _extract_paper_id applied to its own result (main, line 109, does this
\* when a record has no paper_id).
ExtractAgain ==
    /\ idPc = "once"
    /\ extractedTwice' = ExtractPaperId(extracted)
    /\ idPc' = "twice"
    /\ UNCHANGED << idPrefix, idBody, idSuffix, extracted >>
    /\ IdOthers

IdNext ==
    \/ ExtractOnce
    \/ ExtractAgain

InitId ==
    IdInit /\ PipeIdle /\ SecIdle /\ EmbIdle /\ CluIdle /\ SortIdle
    /\ WmIdle /\ ChatIdle

SpecId == InitId /\ [][IdNext]_vars

SecOthers ==
    UNCHANGED << idVars, pipeVars, embVars, cluVars, sortVars, wmVars, chatVars >>
EmbOthers ==
    UNCHANGED << idVars, pipeVars, secVars, cluVars, sortVars, wmVars, chatVars >>
CluOthers ==
    UNCHANGED << idVars, pipeVars, secVars, embVars, sortVars, wmVars, chatVars >>
SortOthers ==
    UNCHANGED << idVars, pipeVars, secVars, embVars, cluVars, wmVars, chatVars >>
WmOthers ==
    UNCHANGED << idVars, pipeVars, secVars, embVars, cluVars, sortVars, chatVars >>
ChatOthers ==
    UNCHANGED << idVars, pipeVars, secVars, embVars, cluVars, sortVars, wmVars >>

\* download_and_extract_pdf_text, lines 157-181: the request, the status
\* test, the page texts and the blank-text test.
Download ==
    /\ secPc = "input"
    /\ \E outcome \in FailureOutcomes \cup
                      (IF all_text = << >> THEN { "no_text" } ELSE { "text" }) :
        /\ fetchOutcome' = outcome
        /\ IF outcome = "text"
           THEN /\ secPc' = "scan"
                /\ pass' = 1
                /\ lines' = all_text
                /\ fetchResult' = fetchResult
           ELSE /\ secPc' = "fetched"
                /\ pass' = pass
                /\ lines' = lines
                /\ fetchResult' = IF outcome = "no_text" THEN NullResult
                                  ELSE FetchFailure(outcome)
    /\ UNCHANGED << all_text, line_i, sections, current_section, current_content,
                    titled, keySections, firstSections, reSections, full_text,
                    summary >>
    /\ SecOthers

\* _extract_key_sections, lines 248-310: one iteration of the line loop.
ExtractStep ==
    /\ secPc = "scan"
    /\ line_i < Len(lines)
    /\ LET f == FindSection(1, lines, line_i)
           at == line_i + f.skip
           line == Strip(lines[at + 1])
       IN  /\ line_i' = at + 1
           /\ IF f.found # NoSection
              THEN /\ sections' = StoreSection(sections, current_section, current_content)
                   /\ current_section' = f.found
                   /\ current_content' = << line >>
                   /\ titled' = titled \cup { f.found }
              ELSE /\ titled' = titled
                   /\ IF current_section = NoSection
                      THEN UNCHANGED << sections, current_section, current_content >>
                      ELSE IF IsNumberedHeading(line) /\ HeadingCloses(current_section, line)
                      THEN /\ sections' = StoreSection(sections, current_section, current_content)
                           /\ current_section' = NoSection
                           /\ current_content' = << >>
                      ELSE /\ current_content' = Append(current_content, lines[at + 1])
                           /\ UNCHANGED << sections, current_section >>
    /\ UNCHANGED << secPc, all_text, fetchOutcome, pass, lines, keySections,
                    firstSections, reSections, fetchResult, full_text, summary >>
    /\ SecOthers

\* _extract_key_sections, lines 312-337, and for the PDF text the fetcher's
\* lines 184-193: the last section is stored and the text is composed.
ExtractFinish ==
    /\ secPc = "scan"
    /\ line_i >= Len(lines)
    /\ LET final == StoreSection(sections, current_section, current_content)
           text == ComposeSections(final)
       IN  /\ sections' = final
           /\ IF pass = 1
              THEN /\ keySections' = text
                   /\ firstSections' = final
                   /\ fetchResult' = IF text.found
                                     THEN [kind |-> "sections", lines |-> text.lines]
                                     ELSE [kind |-> "head", lines |-> HeadOf(all_text)]
                   /\ secPc' = "fetched"
                   /\ reSections' = reSections
              ELSE /\ reSections' = text
                   /\ secPc' = "reextracted"
                   /\ UNCHANGED << keySections, firstSections, fetchResult >>
    /\ UNCHANGED << all_text, fetchOutcome, pass, lines, line_i, current_section,
                    current_content, titled, full_text, summary >>
    /\ SecOthers

\* search_papers, lines 467-478: the record's full_text for a paper that has
\* a pdf_url; summary is the paper's abstract, which may be empty.
UseInSearch ==
    /\ secPc = "fetched"
    /\ \E paper_summary \in { << >>, << Line("Some text.") >> } :
        /\ summary' = paper_summary
        /\ full_text' =
            IF fetchResult.kind \in { "sections", "head" } /\ fetchResult.lines # << >>
            THEN [kind |-> "abstract+pdf",
                  lines |-> << Line("=== Abstract ===") >>
                            \o (IF paper_summary # << >> THEN paper_summary
                                ELSE << EmptyLine >>)
                            \o << EmptyLine >> \o fetchResult.lines]
            ELSE IF paper_summary # << >>
                 THEN [kind |-> "summary", lines |-> paper_summary]
                 ELSE NullResult
    /\ secPc' = "used"
    /\ UNCHANGED << all_text, fetchOutcome, pass, lines, line_i, sections,
                    current_section, current_content, titled, keySections,
                    firstSections, reSections, fetchResult >>
    /\ SecOthers

\* _extract_key_sections applied to its own non-null output.
ReExtract ==
    /\ secPc = "used"
    /\ keySections.found
    /\ secPc' = "scan"
    /\ pass' = 2
    /\ lines' = keySections.lines
    /\ line_i' = 0
    /\ sections' = NoSections
    /\ current_section' = NoSection
    /\ current_content' = << >>
    /\ titled' = { }
    /\ UNCHANGED << all_text, fetchOutcome, keySections, firstSections,
                    reSections, fetchResult, full_text, summary >>
    /\ SecOthers

SecNext ==
    \/ Download
    \/ ExtractStep
    \/ ExtractFinish
    \/ UseInSearch
    \/ ReExtract

InitSections ==
    SecInit /\ IdIdle /\ PipeIdle /\ EmbIdle /\ CluIdle /\ SortIdle
    /\ WmIdle /\ ChatIdle

SpecSections == InitSections /\ [][SecNext]_vars


\* get_embeddings, lines 23-32: the empty list is returned at once.
EmbedStart ==
    /\ embPc = "start"
    /\ embPc' = IF texts = 0 THEN "returned" ELSE "loop"
    /\ UNCHANGED << texts, batch_size, apiDim, batch_start, embeddings, batchLog >>
    /\ EmbOthers

\* get_embeddings, lines 34-64: one batch is sent and its answer, or its
\* failure, is turned into vectors.
EmbedBatch ==
    /\ embPc = "loop"
    /\ batch_start < texts
    /\ LET from == batch_start + 1
           to == Min(batch_start + batch_size, texts)
       IN  \E outcome \in BatchFailures \cup { "data" }, m \in 0..(to - from + 2) :
              /\ outcome \in BatchFailures => m = 0
              /\ embeddings' = embeddings \o
                     (IF outcome \in BatchFailures THEN ZeroVectors(from, to)
                      ELSE ApiVectors(from, to, m, apiDim))
              /\ batchLog' = Append(batchLog,
                     [outcome |-> outcome, from |-> from, to |-> to,
                      at |-> Len(embeddings)])
    /\ batch_start' = batch_start + batch_size
    /\ UNCHANGED << embPc, texts, batch_size, apiDim >>
    /\ EmbOthers

\* get_embeddings, lines 66-67: the loop is over and the list is returned.
EmbedReturn ==
    /\ embPc = "loop"
    /\ batch_start >= texts
    /\ embPc' = "returned"
    /\ UNCHANGED << texts, batch_size, apiDim, batch_start, embeddings, batchLog >>
    /\ EmbOthers

EmbNext ==
    \/ EmbedStart
    \/ EmbedBatch
    \/ EmbedReturn

InitEmbed ==
    EmbInit /\ IdIdle /\ PipeIdle /\ SecIdle /\ CluIdle /\ SortIdle
    /\ WmIdle /\ ChatIdle

SpecEmbed == InitEmbed /\ [][EmbNext]_vars


\* cluster_papers_kmeans, lines 82-108 (called at paper_summarizer.py:630-633).
ClusterKMeans ==
    /\ cluPc = "start"
    /\ \E K \in 1..MaxK :
        /\ n_clusters' = K
        /\ IF Len(paperVectors) = 0
           THEN /\ kRequested' = 0
                /\ labels' = << >>
                /\ cluPc' = "clustered"
           ELSE LET k == KRequested(K, Len(paperVectors))
                IN  /\ kRequested' = k
                    /\ \E fit \in KMeansFit(k, Len(paperVectors)) :
                          /\ labels' = fit.labels
                          /\ cluPc' = IF fit.raised THEN "raised" ELSE "clustered"
    /\ method' = "kmeans"
    /\ UNCHANGED << paperVectors, top_n, representative_papers >>
    /\ CluOthers

\* cluster_papers, lines 120-157 (called at paper_summarizer.py:635).
ClusterDBSCAN ==
    /\ cluPc = "start"
    /\ IF Len(paperVectors) = 0
       THEN labels' = << >>
       ELSE \E fit \in DbscanFit(Len(paperVectors)) : labels' = fit.labels
    /\ cluPc' = "clustered"
    /\ method' = "dbscan"
    /\ UNCHANGED << paperVectors, n_clusters, kRequested, top_n, representative_papers >>
    /\ CluOthers

\* select_representative_papers, lines 178-255.
SelectRepresentatives ==
    /\ cluPc = "clustered"
    /\ \E n \in 1..MaxTopN, sample \in NoiseSamples(labels) :
        /\ top_n' = n
        /\ representative_papers' =
               SelectRepresentativePapers(paperVectors, labels, n, sample)
    /\ cluPc' = "selected"
    /\ UNCHANGED << paperVectors, method, n_clusters, kRequested, labels >>
    /\ CluOthers

CluNext ==
    \/ ClusterKMeans
    \/ ClusterDBSCAN
    \/ SelectRepresentatives

InitCluster ==
    CluInit /\ IdIdle /\ PipeIdle /\ SecIdle /\ EmbIdle /\ SortIdle
    /\ WmIdle /\ ChatIdle

SpecCluster == InitCluster /\ [][CluNext]_vars


\* summarize_papers, line 794, with _generate_trend_analysis, line 641, and
\* select_representative_papers, lines 225-232: the representatives are
\* copies of the records, and the tags are written on the copies.
TrendAnalysis ==
    /\ sortPc = "trend"
    /\ \E ts \in [1..Len(paper_data_list) -> TagChoices] :
          trend_representatives' =
              SelectSeq([ n \in 1..Len(paper_data_list) |->
                            [paper_data_list[n] EXCEPT !.tags = ts[n]] ],
                        LAMBDA p : p.tags.tagged)
    /\ sortPc' = "sort"
    /\ UNCHANGED << caller, paper_data_list, sorted_paper_data >>
    /\ SortOthers

\* _sort_papers_by_priority, lines 956-994 (called at line 800).
SortPapers ==
    /\ sortPc = "sort"
    /\ sorted_paper_data' = SortPapersByPriority(paper_data_list)
    /\ sortPc' = "sorted"
    /\ UNCHANGED << caller, paper_data_list, trend_representatives >>
    /\ SortOthers

SortNext ==
    \/ TrendAnalysis
    \/ SortPapers

InitSort ==
    SortInit /\ IdIdle /\ PipeIdle /\ SecIdle /\ EmbIdle /\ CluIdle
    /\ WmIdle /\ ChatIdle

SpecSort == InitSort /\ [][SortNext]_vars


\* _save_latest_paper_id(paper_id), lines 48-65.
SaveLatestPaperId ==
    /\ Len(wmSaves) < MaxSaves
    /\ \E paper_id \in WmIds, outcome \in SaveOutcomes :
         /\ wmFile' = SaveToFile(wmFile, paper_id, outcome)
         /\ wmSaves' = Append(wmSaves, [paper_id |-> paper_id,
                                        outcome |-> outcome])
    /\ loaded' = NotLoaded
    /\ WmOthers

\* _load_latest_processed_paper_id(), lines 25-46.
LoadLatestPaperId ==
    /\ loaded = NotLoaded
    /\ loaded' = LoadFromFile(wmFile)
    /\ UNCHANGED << wmFile, wmSaves >>
    /\ WmOthers

WmNext == SaveLatestPaperId \/ LoadLatestPaperId

InitWatermark ==
    WmInit /\ IdIdle /\ PipeIdle /\ SecIdle /\ EmbIdle /\ CluIdle
    /\ SortIdle /\ ChatIdle

SpecWatermark == InitWatermark /\ [][WmNext]_vars

\* One pass of the loop body of chat_completion, lines 62-91, up to the
\* return or the except clause that catches it.
ChatAttempt ==
    /\ chatPc = "attempt"
    /\ \E outcome \in AttemptOutcomes :
         /\ attemptLog' = Append(attemptLog, outcome)
         /\ IF outcome = "ok"
            THEN /\ chatPc' = "returned"
                 /\ chatResult' = Response
            ELSE IF outcome = "timeout"
            THEN /\ chatPc' = "sleep"
                 /\ chatResult' = chatResult
            ELSE IF IsLastAttempt(attempt, retry_count)
            THEN /\ chatPc' = "raised"
                 /\ chatResult' = ChatRaised
            ELSE /\ chatPc' = "sleep"
                 /\ chatResult' = chatResult
    /\ UNCHANGED << retry_count, attempt, sleeps >>
    /\ ChatOthers

\* time.sleep(retry_delay) at line 95 or 100, then the next value of
\* range(retry_count); when the range is used up the function ends without a
\* return statement.
ChatSleep ==
    /\ chatPc = "sleep"
    /\ sleeps' = sleeps + 1
    /\ attempt' = attempt + 1
    /\ IF attempt + 1 < retry_count
       THEN /\ chatPc' = "attempt"
            /\ chatResult' = chatResult
       ELSE /\ chatPc' = "returned"
            /\ chatResult' = ReturnedNone
    /\ UNCHANGED << retry_count, attemptLog >>
    /\ ChatOthers

ChatNext == ChatAttempt \/ ChatSleep

InitChat ==
    ChatInit /\ IdIdle /\ PipeIdle /\ SecIdle /\ EmbIdle /\ CluIdle
    /\ SortIdle /\ WmIdle

SpecChat == InitChat /\ [][ChatNext]_vars

\* -------------------------------------------------------------- claims

\* The paper id of the stream item at position i.
StreamId(i) == ExtractPaperId(stream[i])
StreamIds == { StreamId(i) : i \in 1..Len(stream) }

\* The stream positions of a list of result records.
PosSet(rs) == { rs[i].pos : i \in 1..Len(rs) }

\* search_papers has returned normally and nothing went wrong on the way.
CleanReturn == pc = "searched" /\ ~searchRaised /\ failed = {}

\* C1 (as claimed): with the watermark equal to the id of stream item k and
\* no failure, search_papers returns exactly items k+1 .. min(k+cap, end) in
\* stream order, and items 1..k are scanned without being returned.
C1_ResumeReturnsWindow ==
    \A k \in 1..Len(stream) :
        (CleanReturn /\ watermark = StreamId(k)) =>
            LET last == Min(k + max_total_results, Len(stream))
            IN  /\ Ids(all_results) = [ j \in 1..(last - k) |-> StreamId(k + j) ]
                /\ skipped = 1..k

\* C2 (as claimed): a stored watermark that occurs nowhere in the stream makes
\* search_papers return the empty list.
C2_UnknownWatermarkReturnsNothing ==
    (pc = "searched" /\ Truthy(watermark) /\ watermark \notin StreamIds) =>
        all_results = << >>

\* C3 (as claimed): after a run that saved its watermark, the next run over
\* the same stream returns none of the papers that run returned.
C3_NoDuplicateDelivery ==
    (pc = "searched" /\ prevSaved) => IdSet(all_results) \cap prevReturned = {}

\* C4: in every state of the scan and on return, processed_count is the
\* length of the result list and is at most max_total_results.
C4_CapEnforced ==
    /\ processed_count = Len(all_results)
    /\ Len(all_results) <= max_total_results

\* C4 witness: a stream longer than the cap, a stored watermark and a failed
\* item, and the scan has stopped with exactly cap accepted items.
C4_Witness ==
    /\ pc = "searched"
    /\ Len(stream) > max_total_results
    /\ Truthy(watermark)
    /\ failed # {}
    /\ Len(all_results) = max_total_results

\* C5: with no watermark, a stream no longer than the cap and no failure,
\* search_papers returns every stream item once, in stream order.
C5_FirstRunComplete ==
    (CleanReturn /\ ~Truthy(watermark) /\ Len(stream) <= max_total_results) =>
        Ids(all_results) = [ i \in 1..Len(stream) |-> StreamId(i) ]

\* C5 witness: a first run over a stream of exactly cap >= 2 items returned.
C5_Witness ==
    /\ CleanReturn
    /\ ~Truthy(watermark)
    /\ Len(stream) = max_total_results
    /\ Len(stream) >= 2
    /\ Len(all_results) = Len(stream)

\* C6 (as claimed): a run writes the watermark at most once, and a run in
\* which a summarization batch failed, summarize_papers did not give True, or
\* no new paper was found, writes nothing.
C6_WatermarkOnlyOnFullSuccess ==
    /\ writes <= 1
    /\ (pc = "end" /\ (batchesFailed > 0 \/ success # "true"
                          \/ mainOutcome = "no_papers"))
           => (writes = 0 /\ watermark = watermarkAtStart)

\* C7 (as claimed): the watermark a run writes is the id of the last item of
\* the list search_papers returned.
C7_WatermarkIsLastReturned ==
    (pc = "end" /\ writes > 0) =>
        watermark = all_results[Len(all_results)].paper_id

\* C7 (amended): the watermark a run writes is the id of the last returned
\* item that passed main's content filter.
C7_WatermarkIsLastValid ==
    (pc = "end" /\ writes > 0) =>
        \E i \in 1..Len(all_results) :
            /\ all_results[i].content = "text"
            /\ \A j \in (i + 1)..Len(all_results) : all_results[j].content # "text"
            /\ watermark = StreamId(all_results[i].pos)

\* C7 witness: a run wrote the watermark although the newest returned item was
\* dropped by the filter.
C7_Witness ==
    /\ pc = "end"
    /\ writes > 0
    /\ Len(all_results) >= 2
    /\ all_results[Len(all_results)].content # "text"

\* C8 (as claimed): when the external search raises before any result is
\* obtained, search_papers ends with an error the caller can tell from an
\* empty result.
C8_SearchFailureSurfaced ==
    (searchRaised /\ total_found = 0) => searchOutcome = "raised"

\* C8 (amended): when the external search raises before any result is
\* obtained, search_papers returns normally with the empty list, and main
\* takes the no-new-papers exit with the watermark unchanged.
C8_SearchFailureSwallowed ==
    (searchRaised /\ total_found = 0) =>
        /\ searchOutcome = "returned"
        /\ all_results = << >>
        /\ pc \in { "searched", "end" }
        /\ pc = "end" => (mainOutcome = "no_papers" /\ watermark = watermarkAtStart)

\* C8 witness: a run over a non-empty stream ended after the search raised
\* before the first result.
C8_Witness ==
    /\ pc = "end"
    /\ searchRaised
    /\ total_found = 0
    /\ Len(stream) > 0
    /\ mainOutcome = "no_papers"

\* C9: when search_papers returns (the search itself not raising), the result
\* holds, in stream order, the first max_total_results items among those that
\* were neither skipped nor raised: a failed item is absent, takes no place
\* under the cap, and pushes no other item out.
C9_FailureIsolation ==
    (pc = "searched" /\ ~searchRaised) =>
        LET cand == (1..Len(stream)) \ (skipped \cup failed)
            got == PosSet(all_results)
        IN  /\ got \subseteq cand
            /\ \A p \in got, q \in cand : q < p => q \in got
            /\ Cardinality(got) = Min(max_total_results, Cardinality(cand))
            /\ Len(all_results) = Cardinality(got)
            /\ \A i \in 1..Len(all_results) :
                   /\ all_results[i].paper_id = StreamId(all_results[i].pos)
                   /\ \A j \in 1..(i - 1) : all_results[j].pos < all_results[i].pos

\* C9 witness: an item failed, and the result is full and holds an item that
\* lies beyond the first max_total_results positions of the stream.
C9_Witness ==
    /\ pc = "searched"
    /\ ~searchRaised
    /\ failed # {}
    /\ Len(all_results) = max_total_results
    /\ \E p \in PosSet(all_results) : p > max_total_results /\ \E f \in failed : f < p

\* C10 (as claimed): for an entry id made of a prefix, an identifier and an
\* optional version suffix, _extract_paper_id returns the identifier, and
\* applied to its own result it returns the same value.
C10_IdNormalized ==
    /\ idPc \in { "once", "twice" } => extracted = idBody
    /\ idPc = "twice" => extractedTwice = extracted

\* ----------------------------------------------- claims: key sections

\* The loop is about to handle a line; ThisLine is that line, stripped.
AtLine == secPc = "scan" /\ line_i < Len(lines)
ThisLine == Strip(lines[line_i + 1])
HasNextLine == line_i + 1 < Len(lines)
NextLine == Strip(lines[line_i + 2])
\* The section whose patterns a title line matches.
TitleOf(l) == CHOOSE key \in DOMAIN NoSections : MatchesSection(key, l)
\* A numbered heading that is no target title is being handled while a
\* section is open.
AtHeading ==
    /\ AtLine
    /\ current_section # NoSection
    /\ IsNumberedHeading(ThisLine)
    /\ ~IsTargetSection(ThisLine)
NextIsTitle == HasNextLine /\ IsTargetSection(NextLine)

C12_CurrentLineFirst ==
    [][ (AtLine /\ IsTargetSection(ThisLine)) =>
          /\ current_section' = TitleOf(ThisLine)
          /\ current_content' = << ThisLine >>
          /\ line_i' = line_i + 1 ]_vars

\* The sections that have a title line somewhere in the PDF text.
InputTitles ==
    { TitleOf(Strip(all_text[n])) :
        n \in { m \in 1..Len(all_text) : IsTargetSection(Strip(all_text[m])) } }
IsBanner(l) == \E key \in DOMAIN NoSections : l = Banner(key)
\* The first extraction has returned.
Extracted == secPc \in { "fetched", "used" } /\ fetchOutcome = "text"

\* C13: the text returned holds one banner for each section the scan
\* matched a title of, in the order Introduction, Related Work, Method,
\* Conclusion whatever the order of the titles in the input, each banner
\* followed by that section's title line; a section without a title line in
\* the input has no banner; and the result is null exactly when the input
\* has no title line at all.
C13_FixedOrderOutput ==
    Extracted =>
        LET order == << "introduction", "related_work", "method", "conclusion" >>
            out == keySections.lines
            banners == SelectSeq(out, IsBanner)
            found == SelectSeq(order, LAMBDA key : key \in titled)
        IN  /\ keySections.found <=> InputTitles # { }
            /\ keySections.found <=> titled # { }
            /\ ~keySections.found => out = << >>
            /\ titled \subseteq InputTitles
            /\ Len(banners) = Len(found)
            /\ \A n \in 1..Len(banners) : banners[n] = Banner(found[n])
            /\ \A p \in 1..Len(out) :
                   IsBanner(out[p]) =>
                       /\ p < Len(out)
                       /\ \E key \in DOMAIN NoSections :
                              out[p] = Banner(key) /\ MatchesSection(key, out[p + 1])

\* C13 witness: the text began with the conclusion's title and had the
\* introduction's title later; both sections were matched and returned.
C13_Witness ==
    /\ Extracted
    /\ keySections.found
    /\ all_text[1].text = "Conclusion"
    /\ { "introduction", "conclusion" } \subseteq titled

\* A text returned by the extractor with one more empty line put before
\* every banner but the first, unless the block before that banner ends in
\* the truncation marker.
RECURSIVE WithBlankLines(_, _)
WithBlankLines(out, n) ==
    IF n > Len(out) THEN << >>
    ELSE (IF n > 2 /\ IsBanner(out[n]) /\ out[n - 2] # TruncationNote
          THEN << EmptyLine, out[n] >>
          ELSE << out[n] >>) \o WithBlankLines(out, n + 1)

IsHeadOf(got, ls, n) ==
    /\ TextLen(got) = Min(n, TextLen(ls))
    /\ Len(got) <= Len(ls)
    /\ \A p \in 1..Len(got) :
           /\ got[p].text = ls[p].text
           /\ IF p < Len(got) THEN got[p].len = ls[p].len ELSE got[p].len <= ls[p].len

\* C15: download_and_extract_pdf_text never raises: a status other than
\* 200, a timeout, any other exception and a document without text all give
\* null; a text in which no target title is found gives its first 20000
\* characters, which is not null; and search_papers, given null, takes the
\* paper's abstract as full_text (None when the abstract is empty).
C15_FetcherNeverRaises ==
    fetchResult # Pending =>
        /\ fetchResult.kind # "raised"
        /\ fetchOutcome \in { "status", "timeout", "error", "no_text" }
               => fetchResult = NullResult
        /\ (fetchOutcome = "text" /\ InputTitles = { }) =>
               /\ fetchResult.kind = "head"
               /\ fetchResult.lines # << >>
               /\ IsHeadOf(fetchResult.lines, all_text, 20000)
        /\ (fetchOutcome = "text" /\ InputTitles # { }) =>
               fetchResult = [kind |-> "sections", lines |-> keySections.lines]
        /\ (full_text # Pending /\ fetchResult = NullResult) =>
               full_text = IF summary # << >> THEN [kind |-> "summary", lines |-> summary]
                           ELSE NullResult

\* C15 witness: the download timed out, the fetcher gave null, and the
\* record's full_text is the paper's abstract.
C15_Witness ==
    /\ secPc = "used"
    /\ fetchOutcome = "timeout"
    /\ fetchResult = NullResult
    /\ full_text.kind = "summary"
    /\ full_text.lines = summary

\* -------------------------------------------- claims: embedding gateway

\* C16 (as claimed): whatever the endpoint does, get_embeddings returns one
\* vector for each text, the vector at position n being the one of text n.
C16_OneVectorPerText ==
    embPc = "returned" =>
        /\ Len(embeddings) = texts
        /\ \A n \in 1..Len(embeddings) : embeddings[n].text = n

\* The batch failed: no answer, a rejected status, no data key, a bad item.
FailedBatch(b) == b.outcome \in BatchFailures

C18_OneLabelPerVector ==
    /\ cluPc # "raised"
    /\ cluPc \in { "clustered", "selected" } =>
          /\ Len(labels) = Len(paperVectors)
          /\ method = "kmeans" =>
                /\ Len(paperVectors) > 0 =>
                      kRequested = (IF n_clusters <= Len(paperVectors) THEN n_clusters
                                    ELSE Len(paperVectors))
                /\ \A p \in 1..Len(labels) : labels[p] # -1 /\ labels[p] < kRequested

\* C18 witness: the centroid method was asked for more clusters than there
\* are vectors and returned one label for each vector.
C18_Witness ==
    /\ cluPc = "clustered"
    /\ method = "kmeans"
    /\ Len(paperVectors) >= 1
    /\ n_clusters > Len(paperVectors)
    /\ Len(labels) = Len(paperVectors)

\* The positions in the returned list of the representatives of cluster l,
\* the papers they are, and the real clusters that have any.
RepsOf(l) ==
    { r \in 1..Len(representative_papers) : representative_papers[r].cluster_id = l }
ChosenOf(l) == { representative_papers[r].index : r \in RepsOf(l) }
KeptClusters == { l \in ValidClusters(labels) : RepsOf(l) # { } }
Nearest(l) ==
    \A p \in ChosenOf(l), q \in Members(labels, l) \ ChosenOf(l) :
        DistanceTimesSize(paperVectors, labels, l, p)
            <= DistanceTimesSize(paperVectors, labels, l, q)

\* C19 (as claimed): a kept group of size s has exactly ceil(s/2)
\* representatives, and they are its members nearest to its centroid.
C19_CeilHalfNearest ==
    cluPc = "selected" =>
        \A l \in KeptClusters :
            /\ Cardinality(RepsOf(l)) = (ClusterSize(labels, l) + 1) \div 2
            /\ Nearest(l)

\* C19 (amended): a kept group of size s has exactly max(1, floor(s/2))
\* representatives, all of them different members of the group, and no
\* member left out is strictly nearer to the centroid than one taken.
C19_FloorHalfNearest ==
    cluPc = "selected" =>
        \A l \in KeptClusters :
            /\ Cardinality(RepsOf(l)) =
                   (IF ClusterSize(labels, l) >= 2 THEN ClusterSize(labels, l) \div 2 ELSE 1)
            /\ Cardinality(ChosenOf(l)) = Cardinality(RepsOf(l))
            /\ ChosenOf(l) \subseteq Members(labels, l)
            /\ Nearest(l)

\* C19 witness: a kept group of three has one representative, and a member
\* left out lies strictly farther from the centroid.
C19_Witness ==
    /\ cluPc = "selected"
    /\ \E l \in KeptClusters :
          /\ ClusterSize(labels, l) = 3
          /\ Cardinality(RepsOf(l)) = 1
          /\ \E p \in ChosenOf(l), q \in Members(labels, l) \ ChosenOf(l) :
                 DistanceTimesSize(paperVectors, labels, l, p)
                     < DistanceTimesSize(paperVectors, labels, l, q)

\* C20: at most top_n real groups have representatives; no real group left
\* out is strictly larger than one kept; the kept groups carry the ranks 0,
\* 1, ... in order of non-increasing size, one rank for each group; and a
\* kept group of size s has between 1 and ceil(s/2) representatives.
C20_RepresentativeBound ==
    cluPc = "selected" =>
        /\ Cardinality(KeptClusters) <= top_n
        /\ Cardinality(KeptClusters) =
               Min(top_n, Cardinality(ValidClusters(labels)))
        /\ \A l \in KeptClusters, m \in ValidClusters(labels) \ KeptClusters :
               ClusterSize(labels, m) <= ClusterSize(labels, l)
        /\ \A l \in KeptClusters :
               /\ \E rank \in 0..(Cardinality(KeptClusters) - 1) :
                      \A r \in RepsOf(l) : representative_papers[r].cluster_rank = rank
               /\ \A r \in RepsOf(l) :
                      representative_papers[r].cluster_size = ClusterSize(labels, l)
               /\ Cardinality(RepsOf(l)) >= 1
               /\ Cardinality(RepsOf(l)) <= (ClusterSize(labels, l) + 1) \div 2
        /\ \A a, b \in 1..Len(representative_papers) :
               LET x == representative_papers[a]
                   y == representative_papers[b]
               IN  (x.cluster_id # -1 /\ y.cluster_id # -1) =>
                       /\ x.cluster_rank = y.cluster_rank <=> x.cluster_id = y.cluster_id
                       /\ x.cluster_rank < y.cluster_rank => x.cluster_size >= y.cluster_size

\* C20 witness: with top_n = 1 and two real groups of different sizes, only
\* the larger one has representatives, under rank 0.
C20_Witness ==
    /\ cluPc = "selected"
    /\ top_n = 1
    /\ Cardinality(KeptClusters) = 1
    /\ \E l \in KeptClusters, m \in ValidClusters(labels) :
          /\ ClusterSize(labels, m) < ClusterSize(labels, l)
          /\ \A r \in RepsOf(l) : representative_papers[r].cluster_rank = 0

\* The papers returned, and whether label l is among the top_n largest real
\* groups (fewer than top_n real groups are strictly larger).
Returned == { representative_papers[r].index : r \in 1..Len(representative_papers) }
AmongLargest(l) ==
    /\ l \in ValidClusters(labels)
    /\ Cardinality({ m \in ValidClusters(labels) :
                       ClusterSize(labels, m) > ClusterSize(labels, l) }) < top_n
\* Every returned item is an input paper, carries that paper's label, and
\* the label is the noise label or one of the top_n largest real groups; no
\* paper is returned twice.
MembershipHolds ==
    /\ \A r \in 1..Len(representative_papers) :
           LET x == representative_papers[r]
           IN  /\ x.index \in 1..Len(paperVectors)
               /\ x.cluster_id = labels[x.index]
               /\ x.cluster_id = -1 \/ AmongLargest(x.cluster_id)
    /\ Cardinality(Returned) = Len(representative_papers)

\* C21 (as claimed): for a non-empty input every returned item belongs to a
\* top-K real group or to the noise group, none is returned twice, and at
\* least one input paper is not returned.
C21_StrictSubset ==
    (cluPc = "selected" /\ Len(paperVectors) > 0) =>
        /\ MembershipHolds
        /\ \E p \in 1..Len(paperVectors) : p \notin Returned

\* C21 (amended): for a non-empty input every returned item belongs to a
\* top-K real group or to the noise group and none is returned twice; the
\* returned set is a subset of the input, and it is the whole input when
\* every kept group has one member and at most two papers are noise.
C21_Subset ==
    (cluPc = "selected" /\ Len(paperVectors) > 0) =>
        /\ MembershipHolds
        /\ Returned \subseteq 1..Len(paperVectors)
        /\ (/\ \A l \in ValidClusters(labels) : ClusterSize(labels, l) = 1
            /\ Cardinality(ValidClusters(labels)) <= top_n
            /\ ClusterSize(labels, -1) <= 2) => Returned = 1..Len(paperVectors)

\* C21 witness: three papers or more, of which a noise paper and a member of
\* a real group are returned and another paper is not.
C21_Witness ==
    /\ cluPc = "selected"
    /\ Len(paperVectors) >= 3
    /\ \E a, b \in 1..Len(representative_papers) :
          /\ representative_papers[a].cluster_id = -1
          /\ representative_papers[b].cluster_id # -1
    /\ \E p \in 1..Len(paperVectors) : p \notin Returned

\* The positions in the returned list of the noise representatives.
NoiseReps == RepsOf(-1)

\* C22: the list returned holds min(2, number of noise papers) noise
\* representatives, hence at most that many; they are different papers
\* labelled -1 and carry the rank 999, the size 0 and the distance 999.0;
\* every other representative has a rank below 999 and a distance of 0 or
\* more, and stands before every noise representative.
C22_NoiseSampling ==
    cluPc = "selected" =>
        /\ Cardinality(NoiseReps) =
               (IF ClusterSize(labels, -1) <= 2 THEN ClusterSize(labels, -1) ELSE 2)
        /\ Cardinality(ChosenOf(-1)) = Cardinality(NoiseReps)
        /\ \A r \in NoiseReps :
               /\ labels[representative_papers[r].index] = -1
               /\ representative_papers[r].cluster_rank = 999
               /\ representative_papers[r].cluster_size = 0
               /\ representative_papers[r].distance_times_size = 999
        /\ \A r \in (1..Len(representative_papers)) \ NoiseReps :
               /\ representative_papers[r].cluster_rank < 999
               /\ representative_papers[r].cluster_rank >= 0
               /\ representative_papers[r].distance_times_size >= 0
               /\ \A q \in NoiseReps : r < q

\* C22 witness: three papers are noise, two of them are returned with the
\* reserved tags, after a representative of a real group.
C22_Witness ==
    /\ cluPc = "selected"
    /\ ClusterSize(labels, -1) = 3
    /\ Cardinality(NoiseReps) = 2
    /\ \E r \in 1..Len(representative_papers) : representative_papers[r].cluster_id # -1

\* ------------------------------------------------ claims: priority sort

\* C23: _sort_papers_by_priority returns a permutation of its input, in
\* ascending order of decision priority (recommended, borderline, not
\* recommended, no decision, and last a decision the table does not know),
\* then of cluster rank, then of distance to the centroid (999 for a record
\* without these tags); records with equal keys keep their input order.
C23_CompositePrioritySort ==
    sortPc = "sorted" =>
        LET out == sorted_paper_data
            prio(p) == CASE p.decision = "recommended" -> 0
                         [] p.decision = "borderline" -> 1
                         [] p.decision = "not_recommended" -> 2
                         [] p.decision = "absent" -> 3
                         [] p.decision = "other" -> 4
            rank(p) == IF p.tags.tagged THEN p.tags.rank ELSE 999
            dist(p) == IF p.tags.tagged THEN p.tags.distance ELSE 999
        IN  /\ Len(out) = Len(paper_data_list)
            /\ { out[a].pos : a \in 1..Len(out) } = 1..Len(paper_data_list)
            /\ \A a \in 1..Len(out) : out[a] = paper_data_list[out[a].pos]
            /\ \A a, b \in 1..Len(out) :
                   a < b =>
                       \/ prio(out[a]) < prio(out[b])
                       \/ /\ prio(out[a]) = prio(out[b])
                          /\ rank(out[a]) < rank(out[b])
                       \/ /\ prio(out[a]) = prio(out[b])
                          /\ rank(out[a]) = rank(out[b])
                          /\ dist(out[a]) < dist(out[b])
                       \/ /\ prio(out[a]) = prio(out[b])
                          /\ rank(out[a]) = rank(out[b])
                          /\ dist(out[a]) = dist(out[b])
                          /\ out[a].pos < out[b].pos

\* C23 witness: three records with the same decision were sorted; the last
\* one of the input, nearest in the largest cluster, comes first, and the
\* other two, with equal keys, keep their order.
C23_Witness ==
    /\ sortPc = "sorted"
    /\ caller = "any"
    /\ Len(sorted_paper_data) = 3
    /\ \A a \in 1..3 : paper_data_list[a].decision = "recommended"
    /\ paper_data_list[1].tags = paper_data_list[2].tags
    /\ paper_data_list[1].tags = [tagged |-> TRUE, rank |-> 0, distance |-> 1]
    /\ paper_data_list[3].tags = [tagged |-> TRUE, rank |-> 0, distance |-> 0]
    /\ sorted_paper_data[1].pos = 3
    /\ sorted_paper_data[2].pos = 1
    /\ sorted_paper_data[3].pos = 2

\* A representative copy of the record at place n of paper_data_list.
CopyOf(n) ==
    { trend_representatives[r] :
        r \in { q \in 1..Len(trend_representatives) : trend_representatives[q].pos = n } }
\* Place a of the sorted list holds a representative of cluster rank k.
HasRank(a, k) == \E c \in CopyOf(sorted_paper_data[a].pos) : c.tags.rank = k

\* C25 (as claimed): in summarize_papers the sorted records carry the rank
\* select_representative_papers gave, so among records with the same
\* decision a representative of a lower rank stands before the
\* representatives of higher ranks and before the records not selected.
C25_ClusterOrderInReport ==
    (sortPc = "sorted" /\ caller = "summarize_papers") =>
        \A a, b \in 1..Len(sorted_paper_data) :
            (/\ sorted_paper_data[a].decision = sorted_paper_data[b].decision
             /\ CopyOf(sorted_paper_data[a].pos) # { }
             /\ \/ CopyOf(sorted_paper_data[b].pos) = { }
                \/ \E k, m \in { 0, 1 } : k < m /\ HasRank(a, k) /\ HasRank(b, m))
                => a < b

\* ----------------------------------------------- claims: watermark file

LastSave == wmSaves[Len(wmSaves)]
HasLoaded == loaded # NotLoaded

\* What the claim says of files nobody saved to in between: none without a
\* file or with an unreadable one, the first element of a legacy list.
LoadsByShape ==
    /\ wmFile.shape \in { "absent", "unreadable" } => loaded = None
    /\ wmFile.shape = "list" /\ Len(wmFile.ids) > 0 => loaded = wmFile.ids[1]

ChatEnded == chatPc \in { "returned", "raised" }
AllAttemptsFailed ==
    /\ Len(attemptLog) = retry_count
    /\ \A k \in 1..Len(attemptLog) : attemptLog[k] # "ok"

\* C26: chat_completion makes at most retry_count attempts; it returns the
\* response of the first successful attempt; when all retry_count attempts
\* fail, by timeout or by any other error, it raises, and it never returns
\* normally without a response.
C26_RetryThenRaise ==
    /\ Len(attemptLog) <= retry_count
    /\ chatPc = "returned" =>
          /\ chatResult = Response
          /\ attemptLog[Len(attemptLog)] = "ok"
          /\ \A k \in 1..(Len(attemptLog) - 1) : attemptLog[k] # "ok"
    /\ ChatEnded /\ AllAttemptsFailed => chatPc = "raised"

\* ------------------------------------- claims: section storage and scan

\* C27: when a target title is matched the content of the section open
\* until then is stored under that section, and content once stored for a
\* section is what that section keeps to the end of the scan: no later line,
\* a second title of the same section included, replaces or removes it.
C27_StoredSectionKept ==
    [][ secPc = "scan" =>
          /\ (AtLine /\ current_section # NoSection
                /\ (IsTargetSection(ThisLine) \/ NextIsTitle))
                 => sections'[current_section] = current_content
          /\ \A key \in DOMAIN NoSections :
                 sections[key] # << >> => sections'[key] = sections[key] ]_vars

\* C28: a line handled while a section is open that is neither a target
\* title nor a heading that closes the section becomes the last line of the
\* section's content, whether the section stays open or is stored in the
\* same step.
C28_NoContentLineDropped ==
    [][ (/\ AtLine
         /\ current_section # NoSection
         /\ ~IsTargetSection(ThisLine)
         /\ ~(IsNumberedHeading(ThisLine) /\ current_section # "conclusion"))
        => LET kept == Append(current_content, lines[line_i + 1])
           IN  \/ current_content' = kept
               \/ sections'[current_section] = kept ]_vars

\* -------------------------------------- claims: homogeneous embeddings

\* C29: all vectors one get_embeddings call returns have the same
\* dimension, also when some batches got real vectors and others failed.
C29_HomogeneousDimension ==
    embPc = "returned" =>
        \A a, b \in 1..Len(embeddings) : embeddings[a].dim = embeddings[b].dim

\* ------------------------------------------ claims: progress across runs

\* No search failed, no item failed, and every finished run saved its
\* watermark.
RunsSucceed ==
    /\ ~searchRaised
    /\ failed = {}
    /\ pc = "end" => writes > 0
\* Every item of the stream was returned by this run or the one before.
Covered == StreamIds \subseteq (prevReturned \cup IdSet(all_results))

====
